---- MODULE Spec2Model ----
(***************************************************************************)
(* Adaptive Metropolis sampler of src/code/MCMC.py (class MCMC), for the   *)
(* scalar parameter Dc the code is written for (qstart_vect, qstart_limits *)
(* and qparams all have one row).  The diagnostic prints inside the loop   *)
(* (lines 126-127) are not modelled.                                       *)
(*                                                                         *)
(* Real numbers are exact: a number is a record [n, d, e, p, r] standing   *)
(* for ((n/d) * eps^e * (1+eps)^p)^(1/2^r), where eps is the code's 1e-6.  *)
(* n/d is in lowest terms with d > 0, r = 1 marks a square root that is    *)
(* not rational, so that two numbers are equal iff their records are.      *)
(***************************************************************************)
EXTENDS Integers, Sequences, FiniteSets, TLC

\* ------------------------------------------------------------------ bounds
\* Largest nsamples a sampler is constructed with.
MaxSamples == 3
\* Proposals are drawn from 1..QMax, which is also the upper prior bound.
QMax == 4
\* Length of the observed series (data.shape[1]).
NOut == 4

\* ----------------------------------------------------------- exact numbers
Abs(a) == IF a < 0 THEN -a ELSE a

RECURSIVE GCD(_, _)
GCD(a, b) == IF b = 0 THEN a ELSE GCD(b, a % b)

RECURSIVE ISqrtIn(_, _, _)
ISqrtIn(a, lo, hi) ==
    IF lo >= hi THEN lo
    ELSE LET mid == (lo + hi + 1) \div 2
         IN  IF mid * mid <= a THEN ISqrtIn(a, mid, hi) ELSE ISqrtIn(a, lo, mid - 1)

\* Floor of the square root of a (a >= 0).
ISqrt(a) == ISqrtIn(a, 0, IF a < 46340 THEN a ELSE 46340)

IsSquare(a) == ISqrt(a) * ISqrt(a) = a

Zero == [n |-> 0, d |-> 1, e |-> 0, p |-> 0, r |-> 0]

Norm(n, d, e, p) ==
    IF n = 0 THEN Zero
    ELSE LET g == GCD(Abs(n), Abs(d))
             s == IF d < 0 THEN -1 ELSE 1
         IN  [n |-> s * (n \div g), d |-> s * (d \div g), e |-> e, p |-> p, r |-> 0]

Rat(n, d) == Norm(n, d, 0, 0)

Mul(x, y) == Norm(x.n * y.n, x.d * y.d, x.e + y.e, x.p + y.p)

Inv(x) == Norm(x.d, x.n, -x.e, -x.p)

Div(x, y) == Mul(x, Inv(y))

Neg(x) == [x EXCEPT !.n = -@]

\* x + y for two numbers of the same eps-degree; x*(1+eps) - x = x*eps is the
\* one sum of different degrees the sampler forms (the finite difference).
Add(x, y) ==
    IF x.n = 0 THEN y
    ELSE IF y.n = 0 THEN x
    ELSE IF x.e = y.e /\ x.p = y.p
         THEN Norm(x.n * y.d + y.n * x.d, x.d * y.d, x.e, x.p)
    ELSE IF x.e = y.e /\ x.p = y.p + 1 /\ x.n = -y.n /\ x.d = y.d
         THEN [x EXCEPT !.e = @ + 1, !.p = y.p]
    ELSE [n |-> 0, d |-> 0, e |-> 0, p |-> 0, r |-> 0]

Sub(x, y) == Add(x, Neg(y))

\* x < y for two plain rationals.
Less(x, y) == x.n * y.d < y.n * x.d

Positive(x) == x.n > 0

\* The positive square root of x > 0.
Sqrt(x) ==
    IF IsSquare(x.n) /\ IsSquare(x.d) /\ x.e % 2 = 0 /\ x.p % 2 = 0
    THEN [n |-> ISqrt(x.n), d |-> ISqrt(x.d), e |-> x.e \div 2, p |-> x.p \div 2, r |-> 0]
    ELSE [x EXCEPT !.r = 1]

RECURSIVE SumNum(_, _)
SumNum(f, k) == IF k = 0 THEN Zero ELSE Add(SumNum(f, k - 1), f[k])

Last(s) == s[Len(s)]

\* ------------------------------------------------- inputs of a construction
\* eps = 1e-6 and 1 + eps, the perturbation of sample().
Eps == [n |-> 1, d |-> 1, e |-> 1, p |-> 0, r |-> 0]

OnePlusEps == [n |-> 1, d |-> 1, e |-> 0, p |-> 1, r |-> 0]

\* self.n0 = 0.01
n0 == Rat(1, 100)

\* The 2.38 of the adaptation step.
AdaptScale == Rat(238, 100)

QVals == 1 .. QMax

\* qpriors as the code reads it: qpriors[1] and qpriors[2] are the bounds (vals[2]
\* and vals[3] here, sequences being 1-based), len(qpriors) is 3, and keys tells
\* whether the object has a keys() method (a mapping) or not (a list or tuple).
PriorChoices ==
    { [keys |-> k, vals |-> <<0, b[1], b[2]>>] :
        k \in BOOLEAN, b \in {<<1, QMax>>, <<2, 2>>} }

StartChoices == {1, 2}

DcChoices == {2, 3}

NSampleChoices == -1 .. MaxSamples

AdaptChoices == {2, 3}

\* Values log(np.random.rand()) takes in the model: any negative real can occur.
LogUDraws == {Rat(-1, 1), Rat(-1000, 1)}

\* Values 1/gamma.rvs(...) takes in the model: any positive real can occur.
StdDraws == {Rat(1, 1), Rat(40, 1)}

\* No uniform draw was made in the iteration (log(u) is never 0).
NoDraw == Zero

\* The forward model (model.evaluate()[1][:, 0]): a series that depends on the
\* working parameter Dc only.
Evaluate(Dc) == [k \in 1 .. NOut |-> Mul(Rat(k, 1), Dc)]

\* The observed series: the model at Dc = 2 plus a fixed noise.
Data == [k \in 1 .. NOut |-> Rat(2 * k + (IF k % 2 = 1 THEN 1 ELSE -1), 1)]

\* ------------------------------------------------------------ pure helpers
\* np.sum((acc - self.data) ** 2, axis=1)
SumSq(a) ==
    SumNum([k \in 1 .. NOut |-> Mul(Sub(a[k], Data[k]), Sub(a[k], Data[k]))], NOut)

\* int(nsamples/2)
BurnIn(n) == IF n >= 0 THEN n \div 2 ELSE -((-n) \div 2)

\* Mutant: the seed is counted apart from the burn-in, s[k+1:].
TrimPastSeed(s, k) == SubSeq(s, k + 2, Len(s))

\* s[k:] of Python; a negative k counts from the end.
Trim(s, k) ==
    IF k >= 0 THEN SubSeq(s, k + 1, Len(s))
    ELSE SubSeq(s, (IF Len(s) + k > 0 THEN Len(s) + k ELSE 0) + 1, Len(s))

\* qparams[:, -k:]
Window(s, k) == SubSeq(s, IF Len(s) > k THEN Len(s) - k + 1 ELSE 1, Len(s))

RECURSIVE SumInt(_, _)
SumInt(s, k) == IF k = 0 THEN 0 ELSE SumInt(s, k - 1) + s[k]

\* np.cov of one row of observations (ddof = 1); not a number below two.
Cov(w) ==
    IF Len(w) < 2 THEN [n |-> 0, d |-> 0, e |-> 0, p |-> 0, r |-> 0]
    ELSE LET m  == Len(w)
             sx == SumInt(w, m)
             sq == SumInt([i \in 1 .. m |-> w[i] * w[i]], m)
         IN  Rat(m * sq - sx * sx, m * (m - 1))

\* 2.38**2/len(self.qpriors.keys())*np.cov(qparams[:,-self.adapt_interval:])
ScaledCov(w, k) == Mul(Div(Mul(AdaptScale, AdaptScale), Rat(k, 1)), Cov(w))

\* np.linalg.cholesky of a 1 x 1 matrix succeeds iff its entry is positive.
CholeskyOk(v) == v.d > 0 /\ Positive(v)

Cholesky(v) == Sqrt(v)

\* std2[0]
NoiseVar0(a, priors) == Div(SumSq(a), Rat(NOut - Len(priors.vals), 1))

\* X = ((acc_dq - acc) / (self.model.Dc * 1e-6)).T
Sensitivity(adq, a, Dc) ==
    [k \in 1 .. NOut |-> Div(Sub(adq[k], a[k]), Mul(Dc, Eps))]

\* self.std2[-1] * inv(X.T X)
InitialCov(X, s2) ==
    Mul(s2, Inv(SumNum([k \in 1 .. NOut |-> Mul(X[k], X[k])], NOut)))

\* The sum of squares of the model set to Dc = q (lines 195-198), tabulated.
SSqOf == [q \in QVals |-> SumSq(Evaluate(Rat(q, 1)))]

\* SSqcalc: sets model.Dc, evaluates the model once, returns the sum of squares.
SSqcalc(q, ev) ==
    [Dc |-> Rat(q, 1), SSq |-> SSqOf[q], evals |-> ev + 1]

\* The bound check of acceptreject.
InBounds(q, limits) == q > limits[1] /\ q < limits[2]

\* np.clip(0.5 * (SSqprev - SSqnew) / std2, -np.inf, 0)
AcceptProb(SSqp, SSqn, s2) ==
    LET v == Div(Mul(Rat(1, 2), Sub(SSqp, SSqn)), s2)
    IN  IF Positive(v) THEN Zero ELSE v

\* Mutant: the sum of squares is computed before the bound check.
AcceptRejectEvalFirst(q, SSqp, s2, logu, limits, Dc, ev) ==
    LET c  == SSqcalc(q, ev)
        ok == InBounds(q, limits) /\ Less(logu, AcceptProb(SSqp, c.SSq, s2))
    IN  [accept |-> ok, SSq |-> IF ok THEN c.SSq ELSE SSqp,
         Dc |-> c.Dc, evals |-> c.evals]

\* acceptreject(q_new, SSqprev, std2): the model is evaluated, and the uniform
\* number drawn, only after the bound check passed.
AcceptReject(q, SSqp, s2, logu, limits, Dc, ev) ==
    IF InBounds(q, limits)
    THEN LET c  == SSqcalc(q, ev)
             ok == Less(logu, AcceptProb(SSqp, c.SSq, s2))
         IN  [accept |-> ok, SSq |-> IF ok THEN c.SSq ELSE SSqp,
              Dc |-> c.Dc, evals |-> c.evals]
    ELSE [accept |-> FALSE, SSq |-> SSqp, Dc |-> Dc, evals |-> ev]

\* Mutant: a rejected proposal is appended all the same.
CommitAppendsProposal(chain, SSqp, iacc, ok, q, SSqn) ==
    IF ok
    THEN [qparams |-> Append(chain, q), SSqprev |-> SSqn, iaccept |-> iacc + 1]
    ELSE [qparams |-> Append(chain, q), SSqprev |-> SSqp, iaccept |-> iacc]

\* Mutant: an accepted proposal does not replace SSqprev.
CommitKeepsSSq(chain, SSqp, iacc, ok, q, SSqn) ==
    IF ok
    THEN [qparams |-> Append(chain, q), SSqprev |-> SSqp, iaccept |-> iacc + 1]
    ELSE [qparams |-> Append(chain, Last(chain)), SSqprev |-> SSqp, iaccept |-> iacc]

\* Lines 131-139: what is appended to the chain and kept as SSqprev.
Commit(chain, SSqp, iacc, ok, q, SSqn) ==
    IF ok
    THEN [qparams |-> Append(chain, q), SSqprev |-> SSqn, iaccept |-> iacc + 1]
    ELSE [qparams |-> Append(chain, Last(chain)), SSqprev |-> SSqp, iaccept |-> iacc]

\* bval = 0.5*(self.n0*self.std2[-1]+SSqprev)
NoiseRate(s2, SSqp) == Mul(Rat(1, 2), Add(Mul(n0, s2), SSqp))

\* Mutant: Vold is assigned before the factorization is attempted.
AdaptAssignsFirst(chain, Vo, Vn, priors, interval) ==
    IF ~priors.keys
    THEN [Vold |-> Vo, Vnew |-> Vn]
    ELSE LET cand == ScaledCov(Window(chain, interval), Len(priors.vals))
         IN  IF CholeskyOk(cand)
             THEN [Vold |-> Cholesky(cand), Vnew |-> Cholesky(cand)]
             ELSE [Vold |-> cand, Vnew |-> cand]

\* Lines 147-155: any exception of the try block leaves Vold as it was.
Adapt(chain, Vo, Vn, priors, interval) ==
    IF ~priors.keys
    THEN [Vold |-> Vo, Vnew |-> Vn]
    ELSE LET cand == ScaledCov(Window(chain, interval), Len(priors.vals))
         IN  IF CholeskyOk(cand)
             THEN [Vold |-> Cholesky(cand), Vnew |-> Cholesky(cand)]
             ELSE [Vold |-> Vo, Vnew |-> cand]

\* -------------------------------------------------------------------- state
VARIABLES
    pc,             \* "ready" (constructed), "loop" (inside sample), "returned",
                    \* "raised" (sample ended with an exception)
    run,            \* which call of sample() on this sampler: 1 or 2
    modelDc,        \* self.model.Dc
    evals,          \* number of forward-model evaluations so far
    qstart,         \* self.qstart
    qpriors,        \* self.qpriors
    nsamples,       \* self.nsamples
    nburn,          \* self.nburn
    adapt_interval, \* self.adapt_interval
    acc,            \* acc of sample(): the baseline output
    std2,           \* self.std2
    bval,           \* bval of the last noise-variance update
    Vstart,         \* self.Vstart
    qstart_limits,  \* self.qstart_limits
    qparams,        \* qparams of sample(): the chain, seed included
    Vold,           \* covariance given to the next proposal draw
    Vnew,           \* Vnew of sample()
    SSqprev,        \* SSqprev of sample()
    iaccept,        \* iaccept of sample()
    isample,        \* iterations completed
    q_new,          \* the proposal of the last iteration (0: none yet)
    accept,         \* accept of the last iteration
    ret,            \* the chain sample() returned
    recording,      \* whether the draws are kept for a second call
    tape,           \* the random draws of the first call, in order
    first           \* what the first call returned: [chain, std2]

config == <<qstart, qpriors, nsamples, nburn, adapt_interval>>

locals == <<acc, std2, bval, Vstart, qstart_limits, qparams, Vold, Vnew, SSqprev,
            iaccept, isample, q_new, accept>>

vars == <<pc, run, modelDc, evals, config, locals, ret, recording, tape, first>>

\* __init__: stores its arguments; nothing is validated.
Constructed ==
    /\ pc = "ready"
    /\ run = 1
    /\ modelDc \in {Rat(c, 1) : c \in DcChoices}
    /\ evals = 0
    /\ qstart \in StartChoices
    /\ qpriors \in PriorChoices
    /\ nsamples \in NSampleChoices
    /\ nburn = BurnIn(nsamples)
    /\ adapt_interval \in AdaptChoices
    /\ acc = <<>>
    /\ std2 = <<>>
    /\ bval = Zero
    /\ Vstart = Zero
    /\ qstart_limits = <<>>
    /\ qparams = <<>>
    /\ Vold = Zero
    /\ Vnew = Zero
    /\ SSqprev = Zero
    /\ iaccept = 0
    /\ isample = 0
    /\ q_new = 0
    /\ accept = FALSE
    /\ ret = <<>>
    /\ tape = <<>>
    /\ first = [chain |-> <<>>, std2 |-> <<>>]

Init == Constructed /\ recording = FALSE

\* A sampler whose caller keeps the draws, to call sample() a second time with them.
InitTwice == Constructed /\ recording = TRUE

\* Lines 90-116 of sample(), from its entry to the loop.
Begin ==
    /\ pc = "ready"
    /\ LET acc0  == Evaluate(modelDc)
           DcP   == Mul(modelDc, OnePlusEps)
           accdq == Evaluate(DcP)
           s0    == NoiseVar0(acc0, qpriors)
           V0    == InitialCov(Sensitivity(accdq, acc0, DcP), s0)
           c     == SSqcalc(qstart, evals + 2)
       IN  /\ acc' = acc0
           /\ std2' = <<s0>>
           /\ Vstart' = V0
           /\ Vold' = V0
           /\ Vnew' = V0
           /\ qstart_limits' = <<qpriors.vals[2], qpriors.vals[3]>>
           /\ qparams' = <<qstart>>
           /\ SSqprev' = c.SSq
           /\ modelDc' = c.Dc
           /\ evals' = c.evals
    /\ iaccept' = 0
    /\ isample' = 0
    /\ pc' = "loop"
    /\ UNCHANGED <<run, config, bval, q_new, accept, ret, recording, tape, first>>

\* One iteration of the loop (lines 118-155) with the draws of d: the proposal
\* d.q, log(u) = d.logu when a uniform number is drawn, and the new variance d.s.
Iterate(d) ==
    LET ar == AcceptReject(d.q, SSqprev, Last(std2), d.logu, qstart_limits,
                           modelDc, evals)
        cm == Commit(qparams, SSqprev, iaccept, ar.accept, d.q, ar.SSq)
        b  == NoiseRate(Last(std2), cm.SSqprev)
        ad == IF (isample + 1) % adapt_interval = 0
              THEN Adapt(cm.qparams, Vold, Vnew, qpriors, adapt_interval)
              ELSE [Vold |-> Vold, Vnew |-> Vnew]
    IN  /\ Positive(Vold)
        /\ Positive(b)
        /\ q_new' = d.q
        /\ accept' = ar.accept
        /\ modelDc' = ar.Dc
        /\ evals' = ar.evals
        /\ qparams' = cm.qparams
        /\ SSqprev' = cm.SSqprev
        /\ iaccept' = cm.iaccept
        /\ bval' = b
        /\ std2' = Append(std2, d.s)
        /\ Vold' = ad.Vold
        /\ Vnew' = ad.Vnew
        /\ isample' = isample + 1
        /\ UNCHANGED <<pc, run, config, acc, Vstart, qstart_limits, ret, recording, first>>

\* The draws an iteration can make: log(u) only for a proposal inside the bounds.
Draws ==
    { [q |-> q, logu |-> u, s |-> s] :
        q \in QVals, u \in LogUDraws \cup {NoDraw}, s \in StdDraws }

\* An iteration of the first call: fresh draws, recorded on the tape.
Step ==
    /\ pc = "loop"
    /\ run = 1
    /\ isample < nsamples
    /\ \E d \in Draws :
        /\ (d.logu = NoDraw) <=> ~InBounds(d.q, qstart_limits)
        /\ Iterate(d)
        /\ tape' = IF recording THEN Append(tape, d) ELSE tape

\* An iteration of the second call, fed the draws of the first.
Replay ==
    /\ pc = "loop"
    /\ run = 2
    /\ isample < nsamples
    /\ Iterate(tape[isample + 1])
    /\ UNCHANGED tape

\* Lines 157-164: the acceptance ratio iaccept/self.nsamples (a division by
\* zero when nsamples is 0), then trim the burn-in and return.
Finish ==
    /\ pc = "loop"
    /\ isample >= nsamples
    /\ IF nsamples = 0
       THEN pc' = "raised" /\ UNCHANGED <<std2, ret>>
       ELSE /\ std2' = Trim(std2, nburn)
            /\ ret' = Trim(qparams, nburn)
            /\ pc' = "returned"
    /\ UNCHANGED <<run, modelDc, evals, config, acc, bval, Vstart, qstart_limits,
                   qparams, Vold, Vnew, SSqprev, iaccept, isample, q_new, accept,
                   recording, tape, first>>

\* sample() is called again on the same sampler and model, the random generator
\* reseeded as for the first call.
Resample ==
    /\ pc = "returned"
    /\ recording
    /\ run = 1
    /\ run' = 2
    /\ first' = [chain |-> ret, std2 |-> std2]
    /\ pc' = "ready"
    /\ UNCHANGED <<modelDc, evals, config, locals, ret, recording, tape>>

\* One call of sample() on a fresh sampler.
Next == Begin \/ Step \/ Finish

Spec == Init /\ [][Next]_vars

\* The sampler is used for two calls of sample().
NextTwice == Begin \/ Step \/ Finish \/ Resample \/ Replay

SpecTwice == InitTwice /\ [][NextTwice]_vars

\* ------------------------------------------------------------------- claims
\* A step that is one iteration of the loop of sample().
IterStep == pc = "loop" /\ pc' = "loop" /\ isample' = isample + 1

lower == qpriors.vals[2]

upper == qpriors.vals[3]

\* The configuration the spec calls malformed.
Malformed == lower >= upper \/ nsamples <= 0

q0 == Rat(qstart, 1)

\* A configuration with nothing wrong: not malformed, the start inside the bounds.
WellConfigured == ~Malformed /\ lower < qstart /\ qstart < upper

\* C1: every entry of the chain sample() returns lies strictly between the lower
\* and the upper prior bound, whatever the start value (stated here for the
\* configurations that are not malformed).
C1_ChainWithinBounds ==
    (pc = "returned" /\ ~Malformed) =>
        \A i \in 1 .. Len(ret) : lower < ret[i] /\ ret[i] < upper

\* C2: when sample() returns, the returned chain and the trimmed noise-variance
\* series both have nsamples + 1 - nburn entries, for every nsamples >= 1.
C2_TrimmedLengths ==
    (pc = "returned" /\ nsamples >= 1) =>
        /\ Len(ret) = nsamples + 1 - nburn
        /\ Len(std2) = nsamples + 1 - nburn

C2_Witness ==
    pc = "returned" /\ nsamples = MaxSamples /\ nburn >= 1 /\ Len(ret) >= 2

\* C3: in an iteration whose proposal is rejected (by the bounds or by the
\* likelihood test) the entry appended to the chain is the previous last entry,
\* SSqprev keeps its value and the accepted-count is not incremented.
C3_RejectRepeats ==
    [][(IterStep /\ ~accept') =>
          /\ qparams' = Append(qparams, Last(qparams))
          /\ SSqprev' = SSqprev
          /\ iaccept' = iaccept]_vars

\* A proposal inside the bounds, different from the current entry, was rejected
\* by the likelihood test after an out-of-bounds one was rejected before it.
C3_Witness ==
    /\ pc = "loop"
    /\ isample >= 2
    /\ ~accept
    /\ InBounds(q_new, qstart_limits)
    /\ q_new # Last(qparams)
    /\ iaccept = 0
    /\ qparams = [i \in 1 .. isample + 1 |-> qstart]

\* The scaled empirical covariance of the window of the chain c is not
\* positive-definite.
Degenerate(c) ==
    ~CholeskyOk(ScaledCov(Window(c, adapt_interval), Len(qpriors.vals)))

\* C4: at an adaptation checkpoint whose window gives a covariance that is not
\* positive-definite, the proposal covariance keeps its value, the loop stays in
\* progress, and sample() returns only after all nsamples iterations.
C4_DegenerateAdaptKeepsCov ==
    /\ [](pc = "returned" => isample = (IF nsamples > 0 THEN nsamples ELSE 0))
    /\ [][(IterStep /\ isample' % adapt_interval = 0 /\ Degenerate(qparams')) =>
            (Vold' = Vold /\ pc' = "loop")]_vars

\* sample() returned after a checkpoint with an all-equal window, at which the
\* covariance was computed (the priors have keys()), and iterated on after it.
C4_Witness ==
    /\ pc = "returned"
    /\ qpriors.keys
    /\ adapt_interval < isample
    /\ isample % adapt_interval # 0
    /\ LET c == (isample \div adapt_interval) * adapt_interval
       IN  Degenerate(SubSeq(qparams, 1, c + 1))
    /\ Vold = Vstart
    /\ iaccept >= 1

\* C5: the covariance given to a proposal draw is the initial Vstart or the
\* scaled empirical covariance of the window of the last successful adaptation
\* (scaled by 2.38^2/d, d = 1, or by the code's own 2.38^2/len(qpriors)), never
\* its Cholesky factor: an iteration leaves Vold as it was or sets it to the
\* scaled covariance of the window (stated for well-configured samplers).
C5_DrawUsesCovariance ==
    [][(IterStep /\ WellConfigured) =>
          \/ Vold' = Vold
          \/ Vold' = ScaledCov(Window(qparams', adapt_interval), 1)
          \/ Vold' = ScaledCov(Window(qparams', adapt_interval), Len(qpriors.vals))]_vars

\* C6: with a malformed configuration (lower >= upper, or nsamples <= 0) the
\* sampler stops before sampling starts: no proposal is drawn, no iteration
\* runs and no chain is returned.  (With nsamples = 0 the code does end in an
\* exception, the division of line 158; with nsamples < 0 or lower >= upper it
\* does not.)
C6_MalformedNeverSamples ==
    Malformed => (q_new = 0 /\ isample = 0 /\ pc # "returned" /\ ret = <<>>)

\* C7: a second call of sample() on the same sampler and model, fed the same
\* random draws, returns the same chain and the same noise-variance series
\* (stated for well-configured samplers).
C7_SecondRunSame ==
    (pc = "returned" /\ run = 2 /\ WellConfigured) =>
        (ret = first.chain /\ std2 = first.std2)

\* C8: in an iteration whose proposal is not strictly inside the bounds the
\* forward model is not evaluated and the model's working parameter keeps its
\* value; an iteration that evaluates the model has a proposal inside the bounds.
C8_NoEvalOutOfBounds ==
    [][IterStep =>
          /\ (~InBounds(q_new', qstart_limits) => (modelDc' = modelDc /\ evals' = evals))
          /\ (evals' # evals => InBounds(q_new', qstart_limits))]_vars

\* An out-of-bounds proposal was just rejected; the model still holds the last
\* evaluated parameter, which is not the proposal.
C8_Witness ==
    /\ pc = "loop"
    /\ isample >= 2
    /\ q_new # 0
    /\ ~InBounds(q_new, qstart_limits)
    /\ lower < upper
    /\ modelDc # Rat(q_new, 1)
    /\ evals > 3

\* C9: the noise-variance update runs exactly once in every iteration, accepted
\* or rejected, and the SSqprev it uses is the sum of squares of the forward
\* model at the chain's current last entry.
C9_NoiseUpdateUsesCurrent ==
    [][IterStep =>
          /\ Len(std2') = Len(std2) + 1
          /\ SSqprev' = SSqOf[Last(qparams')]
          /\ bval' = NoiseRate(Last(std2), SSqOf[Last(qparams')])]_vars

\* An accepted proposal that changed the chain's last entry, after a rejection.
C9_Witness ==
    /\ pc = "loop"
    /\ isample >= 2
    /\ accept
    /\ iaccept = 1
    /\ qparams[Len(qparams)] # qparams[Len(qparams) - 1]
    /\ Len(std2) = isample + 1

\* C10: the baseline output acc0 is the model's output at the start vector q0,
\* whatever the model's Dc was before the call, and Vstart is built from the
\* sensitivity (acc_j - acc0) / (q0 * 1e-6) with the unperturbed q0 (stated for
\* well-configured samplers).
C10_BaselineAtStart ==
    (pc # "ready" /\ run = 1 /\ WellConfigured) =>
        /\ acc = Evaluate(q0)
        /\ Vstart = InitialCov(Sensitivity(Evaluate(Mul(q0, OnePlusEps)), Evaluate(q0), q0),
                               NoiseVar0(Evaluate(q0), qpriors))

\* Auxiliary to C1: when the start value lies strictly inside the bounds, every
\* entry of the chain, returned or not, does: the seed is the only entry that
\* is never bound-checked.
ChainWithinBoundsFromValidStart ==
    (lower < qstart /\ qstart < upper) =>
        /\ \A i \in 1 .. Len(qparams) : lower < qparams[i] /\ qparams[i] < upper
        /\ \A i \in 1 .. Len(ret) : lower < ret[i] /\ ret[i] < upper
====
